---- MODULE Spec2Model ----
(***************************************************************************)
(* dir-merge: classification of file pairs by shared traits (path, name,   *)
(* content) and the duplicate-resolution workflow.                         *)
(*                                                                         *)
(*   src/comparison.py          Comparison.CompType (the taxonomy)         *)
(*   src/file.py                File.compare_to, File.compare_content      *)
(*   src/comparison_manager.py  ComparisonManager                          *)
(*                                                                         *)
(* DirIndex, ComparisonIndex and cli are imported by ComparisonManager but *)
(* their modules are not part of the sources; they are modelled from the   *)
(* specification (sections 3, 4.3 and 6).                                  *)
(***************************************************************************)
EXTENDS Integers, Sequences, FiniteSets, TLC

(***************************************************************************)
(* Bounds and input domains                                                *)
(***************************************************************************)
NumFiles == 3

Files == 1 .. NumFiles

\* The ComparisonManager object: an identity that is no File.
Manager == NumFiles + 1

Names == {"a.txt", "b.txt"}

Dirs == {"x", "y"}

\* On-disk contents: a size, the first 4096 bytes (head) and the rest (tail).
Contents ==
    { [size |-> "1k", head |-> "h1", tail |-> "t1"],
      [size |-> "1k", head |-> "h1", tail |-> "t2"],
      [size |-> "1k", head |-> "h2", tail |-> "t1"],
      [size |-> "2k", head |-> "h1", tail |-> "t1"] }

BaseContent == [size |-> "1k", head |-> "h1", tail |-> "t1"]

\* Python's None for a fingerprint field, an outcome or a cache miss.
None == "None"

(***************************************************************************)
(* Comparison.CompType, in declaration order                               *)
(***************************************************************************)
CompType ==
    << [type |-> "MATCH",            path |-> TRUE,  name |-> TRUE,  content |-> TRUE ],
       [type |-> "PATH_NAME_DUP",    path |-> TRUE,  name |-> TRUE,  content |-> FALSE],
       [type |-> "CONTENT_NAME_DUP", path |-> FALSE, name |-> TRUE,  content |-> TRUE ],
       [type |-> "CONTENT_PATH_DUP", path |-> TRUE,  name |-> FALSE, content |-> TRUE ],
       [type |-> "NAME_DUP",         path |-> FALSE, name |-> TRUE,  content |-> FALSE],
       [type |-> "CONTENT_DUP",      path |-> FALSE, name |-> FALSE, content |-> TRUE ],
       [type |-> "PATH_DUP",         path |-> TRUE,  name |-> FALSE, content |-> FALSE],
       [type |-> "UNIQUE",           path |-> FALSE, name |-> FALSE, content |-> FALSE] >>

TypeNames == { CompType[i].type : i \in 1 .. Len(CompType) }

TypeIdx(t) == CHOOSE i \in 1 .. Len(CompType) : CompType[i].type = t

VARIABLES
    name,          \* File.name
    dir,           \* File.rel_path.parent
    content,       \* what is on disk at File.abs_path
    unreadable,    \* files whose open() fails (vanished or unreadable after the scan)
    quick_hash,    \* File.quick_hash
    full_hash,     \* File.full_hash
    quickRuns,     \* history: completed runs of __create_quick_hash per file
    fullRuns,      \* history: completed runs of __create_full_hash per file
    comparison_cache,  \* ComparisonManager.comparison_cache
    comparisons,   \* ComparisonManager.comparisons: one ComparisonIndex per CompType
    pc,            \* position of the driver: add_dir_index, resolve_all, done; failed when
                   \* add_dir_index raised, rejected when a direct compare_to call raised
    fileIdx,       \* add_dir_index: position in dir_index.file_list
    typeIdx,       \* resolve_all: position in CompType
    groupIdx,      \* resolve_dups: position in comparison_index.index
    to_remove,     \* resolve_dups: its local list
    calls,         \* history: the compare_to calls of the last step
    returned,      \* history: the outcomes _compare_file_against_group returned in the last step
    prompts,       \* history: the cli calls of the last step
    removedAt,     \* history: per file, the category pass that discarded it (0: none)
    filed,         \* history: the (files, category) of every add_comparison and add_file call
    resolved,      \* history: per category pass of resolve_all, the procedure it ran
    yielded        \* history: per ordered pair, what its compare_to calls yielded

vars == << name, dir, content, unreadable, quick_hash, full_hash, quickRuns, fullRuns,
           comparison_cache, comparisons, pc, fileIdx, typeIdx, groupIdx, to_remove,
           calls, returned, prompts, removedAt, filed, resolved, yielded >>

fileVars == << name, dir, content, unreadable >>

(***************************************************************************)
(* File (src/file.py)                                                      *)
(***************************************************************************)
\* A fingerprint field that was never filled (quick_hash = None, full_hash = None).
NoHash == << >>

\* File.size: st_size of the file at construction.
Size(f) == content[f].size

\* The File objects' mutable fields, threaded through the calls of one step.
\* err is set when open() raised and the exception is on its way up.
FieldsNow ==
    [ quick_hash |-> quick_hash, full_hash |-> full_hash,
      quickRuns |-> quickRuns, fullRuns |-> fullRuns, err |-> FALSE ]

\* File.__create_quick_hash: md5 of the first 4096 bytes.
CreateQuickHash(f) == << "md5", content[f].head >>

\* File.__create_full_hash: sha256 of the whole file.
CreateFullHash(f) == << "sha256", content[f].size, content[f].head, content[f].tail >>

\* A quick fingerprint that is taken again on every use.
EnsureQuickHashUnmemoized(f, fs) ==
    IF fs.err THEN fs
    ELSE IF f \in unreadable THEN [fs EXCEPT !.err = TRUE]
    ELSE [fs EXCEPT !.quick_hash[f] = CreateQuickHash(f), !.quickRuns[f] = @ + 1]

\* "if not self.quick_hash: self.quick_hash = self.__create_quick_hash()"
EnsureQuickHash(f, fs) ==
    IF fs.err \/ fs.quick_hash[f] # NoHash THEN fs
    ELSE IF f \in unreadable THEN [fs EXCEPT !.err = TRUE]
    ELSE [fs EXCEPT !.quick_hash[f] = CreateQuickHash(f), !.quickRuns[f] = @ + 1]

\* "if not self.full_hash: self.full_hash = self.__create_full_hash()"
EnsureFullHash(f, fs) ==
    IF fs.err \/ fs.full_hash[f] # NoHash THEN fs
    ELSE IF f \in unreadable THEN [fs EXCEPT !.err = TRUE]
    ELSE [fs EXCEPT !.full_hash[f] = CreateFullHash(f), !.fullRuns[f] = @ + 1]

\* A full stage that takes equal quick fingerprints for equal content.
FullStageTrusting(self, other, h) ==
    IF h.err THEN [same |-> FALSE, fs |-> h]
    ELSE [same |-> TRUE, fs |-> h]

\* File.compare_content, from "if self.full_hash != other.full_hash" on; h is
\* the fields after both full fingerprints were asked for.
FullStage(self, other, h) ==
    IF h.err THEN [same |-> FALSE, fs |-> h]
    ELSE [same |-> h.full_hash[self] = h.full_hash[other], fs |-> h]

\* A quick stage that fills the full fingerprint of self only.
QuickStageSelfOnly(self, other, q) ==
    IF q.err THEN [same |-> FALSE, fs |-> q]
    ELSE IF q.quick_hash[self] # q.quick_hash[other] THEN [same |-> FALSE, fs |-> q]
    ELSE FullStage(self, other, EnsureFullHash(self, q))

\* A quick stage that takes the full fingerprints before looking at the quick ones.
QuickStageEager(self, other, q) ==
    IF q.err THEN [same |-> FALSE, fs |-> q]
    ELSE IF q.quick_hash[self] # q.quick_hash[other]
    THEN [same |-> FALSE, fs |-> EnsureFullHash(other, EnsureFullHash(self, q))]
    ELSE FullStage(self, other, EnsureFullHash(other, EnsureFullHash(self, q)))

\* File.compare_content, from "if self.quick_hash != other.quick_hash" on; q is
\* the fields after both quick fingerprints were asked for.
QuickStage(self, other, q) ==
    IF q.err THEN [same |-> FALSE, fs |-> q]
    ELSE IF q.quick_hash[self] # q.quick_hash[other] THEN [same |-> FALSE, fs |-> q]
    ELSE FullStage(self, other, EnsureFullHash(other, EnsureFullHash(self, q)))

\* A compare_content that fills the fingerprints of self and reads those of
\* other as they are.
compare_content_self_only(self, other, fs) ==
    IF Size(self) # Size(other) THEN [same |-> FALSE, fs |-> fs]
    ELSE QuickStageSelfOnly(self, other, EnsureQuickHash(self, fs))

\* File.compare_content: size, then quick fingerprints, then full fingerprints.
\* Returns the verdict and the fields as the call leaves them.
compare_content(self, other, fs) ==
    IF Size(self) # Size(other) THEN [same |-> FALSE, fs |-> fs]
    ELSE QuickStage(self, other, EnsureQuickHash(other, EnsureQuickHash(self, fs)))

\* A taxonomy lookup that tests the path and name traits only.
FirstCompTypeByPathAndName(same_path, same_name, same_content) ==
    LET hits == { i \in 1 .. Len(CompType) :
                    /\ CompType[i].path = same_path
                    /\ CompType[i].name = same_name }
    IN IF hits = {} THEN 0 ELSE CHOOSE i \in hits : \A j \in hits : i <= j

\* The loop "for comp_type in CompType": the first member whose three traits
\* equal the computed ones, 0 when the loop falls through.
FirstCompType(same_path, same_name, same_content) ==
    LET hits == { i \in 1 .. Len(CompType) :
                    /\ CompType[i].path = same_path
                    /\ CompType[i].name = same_name
                    /\ CompType[i].content = same_content }
    IN IF hits = {} THEN 0 ELSE CHOOSE i \in hits : \A j \in hits : i <= j

\* A compare_to that returns the PATH_DUP outcome like any other.
ClassifyUnsuppressed(self, other, fs, cc, i) ==
    [ self |-> self, other |-> other,
      same_path |-> dir[self] = dir[other],
      same_name |-> name[self] = name[other],
      same_content |-> cc.same,
      outcome |-> IF cc.fs.err \/ i = 0 THEN None ELSE CompType[i].type,
      raised |-> IF cc.fs.err THEN "OSError"
                 ELSE IF i = 0 THEN "NoValidCompType"
                 ELSE "none",
      newQuick |-> { f \in Files : cc.fs.quickRuns[f] > fs.quickRuns[f] },
      newFull |-> { f \in Files : cc.fs.fullRuns[f] > fs.fullRuns[f] },
      fs |-> cc.fs ]

\* File.compare_to after compare_content returned cc (or raised): the category
\* i the loop stopped at, PATH_DUP suppressed, the ValueError after the loop.
Classify(self, other, fs, cc, i) ==
    [ self |-> self, other |-> other,
      same_path |-> dir[self] = dir[other],
      same_name |-> name[self] = name[other],
      same_content |-> cc.same,
      outcome |-> IF cc.fs.err \/ i = 0 THEN None
                  ELSE IF CompType[i].type = "PATH_DUP" THEN None
                  ELSE CompType[i].type,
      raised |-> IF cc.fs.err THEN "OSError"
                 ELSE IF i = 0 THEN "NoValidCompType"
                 ELSE "none",
      newQuick |-> { f \in Files : cc.fs.quickRuns[f] > fs.quickRuns[f] },
      newFull |-> { f \in Files : cc.fs.fullRuns[f] > fs.fullRuns[f] },
      fs |-> cc.fs ]

\* File.compare_to once the traits are computed.
Traits(self, other, fs, cc) ==
    Classify(self, other, fs, cc,
             FirstCompType(dir[self] = dir[other], name[self] = name[other], cc.same))

\* File.compare_to. outcome is the CompType of the Comparison returned, None when
\* nothing is returned. raised names the exception that left the call, if any.
compare_to(self, other, fs) ==
    IF self = other
    THEN [ self |-> self, other |-> other, same_path |-> TRUE, same_name |-> TRUE,
           same_content |-> FALSE, outcome |-> None, raised |-> "ValueError",
           newQuick |-> {}, newFull |-> {}, fs |-> fs ]
    ELSE Traits(self, other, fs, compare_content(self, other, fs))

(***************************************************************************)
(* DirIndex: the traversal collaborator (specification, section 6)         *)
(***************************************************************************)
\* dir_index.file_list: every descriptor of the scan, in scan order.
file_list == [ i \in 1 .. NumFiles |-> i ]

\* dir_index.name_index[n]: the descriptors named n, in scan order.
name_index(n) == SelectSeq(file_list, LAMBDA f : name[f] = n)

\* dir_index.size_index[s]: the descriptors of size s, in scan order.
size_index(s) == SelectSeq(file_list, LAMBDA f : Size(f) = s)

(***************************************************************************)
(* ComparisonIndex: one category's bucket (specification, section 3).      *)
(* A bucket is the ordered list of its groups; a group is a grouping key   *)
(* and the ordered list of the member files sharing that key.              *)
(***************************************************************************)
Members(group) == { group.files[i] : i \in 1 .. Len(group.files) }

AppendNew(seq, f) == IF \E i \in 1 .. Len(seq) : seq[i] = f THEN seq ELSE Append(seq, f)

\* The grouping key of an outcome: the values of the traits its category shares.
GroupKey(t, f) ==
    LET traits == CompType[TypeIdx(t)]
    IN << IF traits.path THEN dir[f] ELSE "-",
          IF traits.name THEN name[f] ELSE "-",
          IF traits.content THEN << content[f] >> ELSE << >> >>

\* ComparisonIndex.add_comparison: file both files of the outcome under its key.
add_comparison(index, comparison) ==
    LET k == GroupKey(comparison.comp_type, comparison.fileA)
        at == { i \in 1 .. Len(index) : index[i].key = k }
    IN IF at = {}
       THEN Append(index, [key |-> k, files |-> << comparison.fileA, comparison.fileB >>])
       ELSE LET i == CHOOSE i \in at : TRUE
            IN [index EXCEPT ![i].files =
                    AppendNew(AppendNew(@, comparison.fileA), comparison.fileB)]

\* ComparisonIndex.add_file: a UNIQUE file is a group of its own, under its
\* own key; filing it again leaves the bucket as it is.
add_file(index, f) ==
    IF \E i \in 1 .. Len(index) : index[i].key = << "file", f >> THEN index
    ELSE Append(index, [key |-> << "file", f >>, files |-> << f >>])

\* ComparisonIndex.set_comparisons, applied to the group being resolved: the
\* group keeps the files of kept, in their order, and drops its other members.
set_comparisons(index, g, kept) ==
    [index EXCEPT ![g].files = SelectSeq(@, LAMBDA f : f \in kept)]

\* ComparisonIndex.remove_comparisons: file leaves every group of this bucket.
remove_comparisons(index, file) ==
    [ g \in 1 .. Len(index) |->
        [index[g] EXCEPT !.files = SelectSeq(@, LAMBDA f : f # file)] ]

(***************************************************************************)
(* ComparisonManager (src/comparison_manager.py): classification           *)
(***************************************************************************)
\* comparison_cache.get(key): None on a miss. The cache is keyed by (File, File).
CacheGet(cache, key) == IF key \in DOMAIN cache THEN cache[key] ELSE None

\* History only: the unordered pair has an entry in the pair cache.
PairCached(cache, a, b) == cache[<< a, b >>] # None \/ cache[<< b, a >>] # None

\* A guard whose cache lookup is keyed by the two files, in either order.
ShouldCompareUncachedPair(self, file, other_file, cache) ==
    /\ file # other_file
    /\ ~ PairCached(cache, file, other_file)

\* A guard that does not leave the file itself out of its groups.
ShouldCompareItself(self, file, other_file, cache) ==
    ~ ( \/ CacheGet(cache, << self, other_file >>) # None
        \/ CacheGet(cache, << self, other_file >>) # None )

\* The guard of _compare_file_against_group's loop body. self is the manager.
ShouldCompare(self, file, other_file, cache) ==
    /\ file # other_file
    /\ ~ ( \/ CacheGet(cache, << self, other_file >>) # None
           \/ CacheGet(cache, << self, other_file >>) # None )

\* What the history keeps of one compare_to call.
CallRecord(r, cache) ==
    [ self |-> r.self, other |-> r.other, cached |-> PairCached(cache, r.self, r.other),
      same_path |-> r.same_path, same_name |-> r.same_name,
      same_content |-> r.same_content, outcome |-> r.outcome, raised |-> r.raised,
      newQuick |-> r.newQuick, newFull |-> r.newFull ]

\* _compare_file_against_group's loop body after compare_to returned r:
\* "if new_comparison: comparisons.append(new_comparison)".
Collect(file, other_file, cache, acc, r) ==
    [ comparisons |-> IF r.raised = "none" /\ r.outcome # None
                      THEN Append(acc.comparisons,
                                  [fileA |-> file, fileB |-> other_file,
                                   comp_type |-> r.outcome])
                      ELSE acc.comparisons,
      calls |-> Append(acc.calls, CallRecord(r, cache)),
      raised |-> r.raised # "none",
      fs |-> r.fs ]

\* ComparisonManager._compare_file_against_group, its loop over group unrolled.
\* acc carries the comparisons list, the call history and the File fields; an
\* exception of compare_to (acc.raised) ends the loop.
RECURSIVE compare_file_against_group(_, _, _, _)
compare_file_against_group(file, group, cache, acc) ==
    IF group = << >> \/ acc.raised THEN acc
    ELSE IF ~ ShouldCompare(Manager, file, Head(group), cache)
    THEN compare_file_against_group(file, Tail(group), cache, acc)
    ELSE compare_file_against_group(file, Tail(group), cache,
            Collect(file, Head(group), cache, acc, compare_to(file, Head(group), acc.fs)))

\* History only: what a compare_to call yielded, the category of the Comparison
\* it returned, None, or the exception that left it.
Yielded(call) == IF call.raised # "none" THEN call.raised ELSE call.outcome

\* History only: past with what the compare_to calls cs yielded.
Yield(past, cs) ==
    [ k \in Files \X Files |->
        past[k] \cup { Yielded(cs[i]) : i \in { j \in 1 .. Len(cs) :
                                                 << cs[j].self, cs[j].other >> = k } } ]

\* History only: what an add_comparison call is remembered by.
FiledAs(comparison) == << {comparison.fileA, comparison.fileB}, comparison.comp_type >>

\* An _add_comparisons that files every outcome but caches none.
RECURSIVE add_comparisons_uncached(_, _)
add_comparisons_uncached(list, m) ==
    IF list = << >> THEN m
    ELSE add_comparisons_uncached(Tail(list),
            IF Head(list).comp_type # "UNIQUE"
            THEN [m EXCEPT !.non_unique_added = TRUE,
                           !.index[Head(list).comp_type] = add_comparison(@, Head(list)),
                           !.filed = @ \cup {FiledAs(Head(list))}]
            ELSE m)

\* ComparisonManager._add_comparisons, its loop unrolled. m carries the pair
\* cache, the buckets, non_unique_added and the history of add_comparison calls.
RECURSIVE add_comparisons(_, _)
add_comparisons(list, m) ==
    IF list = << >> THEN m
    ELSE LET comparison == Head(list)
             cached == [m EXCEPT !.cache[<< comparison.fileA, comparison.fileB >>] =
                                        comparison.comp_type]
         IN add_comparisons(Tail(list),
               IF comparison.comp_type # "UNIQUE"
               THEN [cached EXCEPT
                        !.non_unique_added = TRUE,
                        !.index[comparison.comp_type] = add_comparison(@, comparison),
                        !.filed = @ \cup {FiledAs(comparison)}]
               ELSE cached)

(***************************************************************************)
(* Initial state: a scanned tree and a freshly constructed manager.        *)
(* The first file fixes one name, folder and content; the others range     *)
(* over all of them. At most one file becomes unreadable after the scan.   *)
(* Two files may share folder and name: rel_path is relative to the base   *)
(* path a File was built with, and a merge scans several base paths.       *)
(***************************************************************************)
Init ==
    /\ name \in [Files -> Names]
    /\ name[1] = "a.txt"
    /\ dir \in [Files -> Dirs]
    /\ dir[1] = "x"
    /\ content \in [Files -> Contents]
    /\ content[1] = BaseContent
    /\ unreadable \in { {} } \cup { {f} : f \in Files }
    /\ quick_hash = [f \in Files |-> NoHash]
    /\ full_hash = [f \in Files |-> NoHash]
    /\ quickRuns = [f \in Files |-> 0]
    /\ fullRuns = [f \in Files |-> 0]
    /\ comparison_cache = [k \in Files \X Files |-> None]
    /\ comparisons = [t \in TypeNames |-> << >>]
    /\ pc = "add_dir_index"
    /\ fileIdx = 1
    /\ typeIdx = 1
    /\ groupIdx = 1
    /\ to_remove = << >>
    /\ calls = << >>
    /\ returned = << >>
    /\ prompts = << >>
    /\ removedAt = [f \in Files |-> 0]
    /\ filed = {}
    /\ resolved = << >>
    /\ yielded = [k \in Files \X Files |-> {}]

\* The empty accumulator of one _compare_file_against_group call.
NoComparisons(callsSoFar, fs) ==
    [comparisons |-> << >>, calls |-> callsSoFar, raised |-> FALSE, fs |-> fs]

\* add_dir_index, what one iteration writes. byName and bySize are the two
\* _compare_file_against_group calls, found_name and found_size the two
\* _add_comparisons calls. An exception in the first call leaves only the
\* fingerprints it filled; one in the second leaves the name-group's outcomes too.
FileDone(file, byName, found_name, bySize, found_size) ==
    /\ quick_hash' = (IF byName.raised THEN byName ELSE bySize).fs.quick_hash
    /\ full_hash' = (IF byName.raised THEN byName ELSE bySize).fs.full_hash
    /\ quickRuns' = (IF byName.raised THEN byName ELSE bySize).fs.quickRuns
    /\ fullRuns' = (IF byName.raised THEN byName ELSE bySize).fs.fullRuns
    /\ calls' = (IF byName.raised THEN byName ELSE bySize).calls
    /\ returned' = IF byName.raised THEN << >>
                   ELSE IF bySize.raised THEN byName.comparisons
                   ELSE byName.comparisons \o bySize.comparisons
    /\ comparison_cache' = IF byName.raised THEN comparison_cache
                           ELSE IF bySize.raised THEN found_name.cache
                           ELSE found_size.cache
    /\ comparisons' =
          IF byName.raised THEN comparisons
          ELSE IF bySize.raised THEN found_name.index
          ELSE IF ~ found_name.non_unique_added /\ ~ found_size.non_unique_added
          THEN [found_size.index EXCEPT !["UNIQUE"] = add_file(@, file)]
          ELSE found_size.index
    /\ filed' = IF byName.raised THEN filed
                ELSE IF bySize.raised THEN found_name.filed
                ELSE IF ~ found_name.non_unique_added /\ ~ found_size.non_unique_added
                THEN found_size.filed \cup { << {file}, "UNIQUE" >> }
                ELSE found_size.filed
    /\ yielded' = Yield(yielded, calls')
    /\ UNCHANGED resolved
    /\ pc' = IF byName.raised \/ bySize.raised THEN "failed"
             ELSE IF fileIdx = NumFiles THEN "resolve_all"
             ELSE "add_dir_index"
    /\ fileIdx' = IF byName.raised \/ bySize.raised THEN fileIdx
                  ELSE IF fileIdx = NumFiles THEN 1
                  ELSE fileIdx + 1

\* add_dir_index, the size-group half of one iteration.
SizeGroup(file, byName, found_name, bySize) ==
    FileDone(file, byName, found_name, bySize,
             add_comparisons(bySize.comparisons,
                             [found_name EXCEPT !.non_unique_added = FALSE]))

\* add_dir_index, the name-group half of one iteration.
NameGroup(file, byName, found_name) ==
    SizeGroup(file, byName, found_name,
              compare_file_against_group(file, size_index(Size(file)), found_name.cache,
                                         NoComparisons(byName.calls, byName.fs)))

\* add_dir_index, one iteration from the name-group comparisons on.
FileStep(file, byName) ==
    NameGroup(file, byName,
              add_comparisons(byName.comparisons,
                              [cache |-> comparison_cache, index |-> comparisons,
                               non_unique_added |-> FALSE, filed |-> filed]))

\* One iteration of add_dir_index's loop over dir_index.file_list. An exception
\* leaves add_dir_index with what the iteration had written so far. Once
\* add_dir_index has returned, the caller may call it again on the index before
\* it calls resolve_all.
AddDirIndexFile ==
    /\ \/ pc = "add_dir_index"
       \/ pc = "resolve_all" /\ typeIdx = 1
    /\ FileStep(file_list[fileIdx],
                compare_file_against_group(file_list[fileIdx],
                                           name_index(name[file_list[fileIdx]]),
                                           comparison_cache,
                                           NoComparisons(<< >>, FieldsNow)))
    /\ prompts' = << >>
    /\ UNCHANGED << fileVars, typeIdx, groupIdx, to_remove, removedAt >>

\* What a compare_to call made outside the manager leaves: the fields it
\* filled and, when it raised, a program ended by the exception.
DirectCall(r) ==
    /\ quick_hash' = r.fs.quick_hash
    /\ full_hash' = r.fs.full_hash
    /\ quickRuns' = r.fs.quickRuns
    /\ fullRuns' = r.fs.fullRuns
    /\ calls' = << CallRecord(r, comparison_cache) >>
    /\ yielded' = Yield(yielded, calls')
    /\ pc' = IF r.raised = "none" THEN pc ELSE "rejected"

\* File.compare_to handed the descriptor it is called on: file.compare_to(file).
CompareToSelf ==
    /\ pc = "add_dir_index"
    /\ \E file \in Files : DirectCall(compare_to(file, file, FieldsNow))
    /\ returned' = << >>
    /\ prompts' = << >>
    /\ UNCHANGED << fileVars, comparison_cache, comparisons, fileIdx, typeIdx, groupIdx,
                    to_remove, removedAt, filed, resolved >>

(***************************************************************************)
(* ComparisonManager: resolution. cli is the prompt collaborator; its      *)
(* calls are recorded in prompts, the answer of prompt_keep_options is an  *)
(* input.                                                                  *)
(***************************************************************************)
CurrentType == CompType[typeIdx]

\* History only: files dropped from a bucket in the pass of category i.
MarkRemoved(marks, dropped, i) ==
    [ f \in Files |-> IF f \in dropped /\ marks[f] = 0 THEN i ELSE marks[f] ]

\* The end of one category's pass in resolve_all's loop over CompType.
NextCategory ==
    /\ typeIdx' = IF typeIdx = Len(CompType) THEN typeIdx ELSE typeIdx + 1
    /\ pc' = IF typeIdx = Len(CompType) THEN "done" ELSE "resolve_all"
    /\ groupIdx' = 1
    /\ to_remove' = << >>

\* A dispatch that sends every category but UNIQUE to resolve_dups.
DispatchAllToDups(type) ==
    IF type = "UNIQUE" THEN "continue" ELSE "resolve_dups"

\* resolve_all, the if / elif / else on the category.
Dispatch(type) ==
    IF type = "MATCH" THEN "resolve_matches"
    ELSE IF type = "UNIQUE" THEN "continue"
    ELSE "resolve_dups"

\* History only: the pass of the current category starts with procedure proc.
Enter(proc) == resolved' = Append(resolved, << CurrentType.type, proc >>)

\* A resolve_matches that keeps the last member of the group.
MatchKeptLast(matches) == { matches[Len(matches)] }

\* resolve_matches passes matches[0] to set_comparisons.
MatchKept(matches) == { matches[1] }

\* ComparisonManager.resolve_matches: every group of the MATCH bucket.
resolve_matches(match_index) ==
    [ g \in 1 .. Len(match_index) |->
        set_comparisons(match_index, g, MatchKept(match_index[g].files))[g] ]

\* resolve_all, type == CompType.MATCH.
ResolveMatches ==
    /\ pc = "resolve_all"
    /\ Dispatch(CurrentType.type) = "resolve_matches"
    /\ Enter("resolve_matches")
    /\ LET match_index == comparisons["MATCH"]
           after == resolve_matches(match_index)
           dropped == UNION { Members(match_index[g]) \ Members(after[g]) :
                              g \in 1 .. Len(match_index) }
       IN /\ comparisons' = [comparisons EXCEPT !["MATCH"] = after]
          /\ removedAt' = MarkRemoved(removedAt, dropped, typeIdx)
    /\ prompts' = << >>
    /\ calls' = << >>
    /\ returned' = << >>
    /\ NextCategory
    /\ UNCHANGED << fileVars, quick_hash, full_hash, quickRuns, fullRuns,
                    comparison_cache, fileIdx, filed, yielded >>

\* resolve_all, type == CompType.UNIQUE: continue.
SkipUnique ==
    /\ pc = "resolve_all"
    /\ Dispatch(CurrentType.type) = "continue"
    /\ Enter("continue")
    /\ prompts' = << >>
    /\ calls' = << >>
    /\ returned' = << >>
    /\ NextCategory
    /\ UNCHANGED << fileVars, quick_hash, full_hash, quickRuns, fullRuns,
                    comparison_cache, comparisons, fileIdx, removedAt, filed, yielded >>

\* One call of the prompt collaborator. answer is what prompt_keep_options
\* returned (empty for the calls that return nothing).
CliCall(op, traits, g, dup_list, answer) ==
    [op |-> op, type |-> traits.type, group |-> g, files |-> dup_list, answer |-> answer]

\* Cli calls that offer the diff when the content trait is true.
GroupPromptsDiffOnContent(traits, g, dup_list, user_choice) ==
    << CliCall("display_files", traits, g, dup_list, {}) >>
    \o ( IF traits.content
         THEN << CliCall("prompt_build_diff", traits, g, dup_list, {}) >>
         ELSE << >> )
    \o << CliCall("prompt_keep_options", traits, g, dup_list, user_choice) >>

\* The cli calls resolve_dups makes for group g, in order.
GroupPrompts(traits, g, dup_list, user_choice) ==
    << CliCall("display_files", traits, g, dup_list, {}) >>
    \o ( IF ~ traits.content
         THEN << CliCall("prompt_build_diff", traits, g, dup_list, {}) >>
         ELSE << >> )
    \o << CliCall("prompt_keep_options", traits, g, dup_list, user_choice) >>

\* resolve_dups, "if len(user_choice) == 0": what is appended to to_remove.
EmptyChoice(list, dup_list) == Append(list, dup_list[1])

\* resolve_dups, the loop "for file in to_remove", unrolled.
RECURSIVE RemoveAll(_, _)
RemoveAll(index, list) ==
    IF list = << >> THEN index
    ELSE RemoveAll(remove_comparisons(index, Head(list)), Tail(list))

\* resolve_dups(type): one iteration of its loop over the bucket's groups, with
\* the answer user_choice; after the last group, the removal loop.
ResolveDupsGroup ==
    /\ pc = "resolve_all"
    /\ Dispatch(CurrentType.type) = "resolve_dups"
    /\ groupIdx <= Len(comparisons[CurrentType.type])
    /\ IF groupIdx = 1 THEN Enter("resolve_dups") ELSE UNCHANGED resolved
    /\ LET type == CurrentType.type
           comparison_index == comparisons[type]
           dup_list == comparison_index[groupIdx].files
           lastGroup == groupIdx = Len(comparison_index)
       IN \E user_choice \in SUBSET Members(comparison_index[groupIdx]) :
            LET list == IF user_choice = {} THEN EmptyChoice(to_remove, dup_list)
                        ELSE to_remove
                chosen == IF user_choice = {} THEN comparison_index
                          ELSE set_comparisons(comparison_index, groupIdx, user_choice)
                after == IF lastGroup THEN RemoveAll(chosen, list) ELSE chosen
                dropped == UNION { Members(comparison_index[g]) \ Members(after[g]) :
                                   g \in 1 .. Len(comparison_index) }
            IN /\ prompts' = GroupPrompts(CurrentType, groupIdx, dup_list, user_choice)
               /\ comparisons' = [comparisons EXCEPT ![type] = after]
               /\ removedAt' = MarkRemoved(removedAt, dropped, typeIdx)
               /\ IF lastGroup THEN NextCategory
                  ELSE /\ groupIdx' = groupIdx + 1
                       /\ to_remove' = list
                       /\ UNCHANGED << pc, typeIdx >>
    /\ calls' = << >>
    /\ returned' = << >>
    /\ UNCHANGED << fileVars, quick_hash, full_hash, quickRuns, fullRuns,
                    comparison_cache, fileIdx, filed, yielded >>

\* resolve_dups(type) on a bucket without groups: both loops are empty.
ResolveDupsEmpty ==
    /\ pc = "resolve_all"
    /\ Dispatch(CurrentType.type) = "resolve_dups"
    /\ comparisons[CurrentType.type] = << >>
    /\ Enter("resolve_dups")
    /\ prompts' = << >>
    /\ calls' = << >>
    /\ returned' = << >>
    /\ NextCategory
    /\ UNCHANGED << fileVars, quick_hash, full_hash, quickRuns, fullRuns,
                    comparison_cache, comparisons, fileIdx, removedAt, filed, yielded >>

Next ==
    \/ AddDirIndexFile
    \/ CompareToSelf
    \/ ResolveMatches
    \/ ResolveDupsGroup
    \/ ResolveDupsEmpty
    \/ SkipUnique

Spec == Init /\ [][Next]_vars

(***************************************************************************)
(* Properties                                                              *)
(***************************************************************************)
CallSet == { calls[k] : k \in 1 .. Len(calls) }

PromptSet == { prompts[k] : k \in 1 .. Len(prompts) }

ReturnedSet == { returned[k] : k \in 1 .. Len(returned) }

Range(seq) == { seq[k] : k \in 1 .. Len(seq) }

\* The categories whose three traits equal those computed by a call.
CategoriesOf(c) ==
    { i \in 1 .. Len(CompType) :
        /\ CompType[i].path = c.same_path
        /\ CompType[i].name = c.same_name
        /\ CompType[i].content = c.same_content }

\* C1: every compare_to call on two distinct files that computed its three
\* traits resolves them to exactly one category, the one with those traits,
\* and returns it, or nothing when it is PATH_DUP; the "No valid CompType"
\* failure is never raised; identical content under a different name in a
\* different folder is CONTENT_DUP.
C1_ExactlyOneCategory ==
    \A c \in CallSet :
        c.self # c.other /\ c.raised # "OSError" =>
            /\ c.raised = "none"
            /\ Cardinality(CategoriesOf(c)) = 1
            /\ \A i \in CategoriesOf(c) :
                  c.outcome = IF CompType[i].type = "PATH_DUP" THEN None
                              ELSE CompType[i].type
            /\ ( /\ content[c.self] = content[c.other]
                 /\ name[c.self] # name[c.other]
                 /\ dir[c.self] # dir[c.other] ) => c.outcome = "CONTENT_DUP"

\* C1 witness: one add_dir_index iteration classified a pair as CONTENT_DUP
\* and suppressed a PATH_DUP pair.
C1_Witness ==
    /\ \E c \in CallSet : c.raised = "none" /\ c.outcome = "CONTENT_DUP"
    /\ \E c \in CallSet :
          /\ c.raised = "none" /\ c.outcome = None
          /\ c.same_path /\ ~ c.same_name /\ ~ c.same_content

\* C2: add_dir_index never calls compare_to on a pair that already has an
\* entry in the pair cache, in either order.
C2_CachedPairNotCompared == \A c \in CallSet : ~ c.cached

\* C3: after an empty answer of prompt_keep_options for a group, the first
\* member of the group is not put on the removal list and stays in the group.
C3_EmptyChoiceKeepsFirst ==
    \A p \in PromptSet :
        (p.op = "prompt_keep_options" /\ p.answer = {}) =>
            /\ p.files[1] \notin Range(to_remove)
            /\ p.files[1] \in Members(comparisons[p.type][p.group])

\* C4: no group shown to the prompt collaborator holds a file that the pass
\* of an earlier category discarded.
C4_RemovedNotOfferedLater ==
    \A p \in PromptSet :
        \A f \in Range(p.files) : removedAt[f] = 0 \/ removedAt[f] >= TypeIdx(p.type)

\* C5: a fingerprint's I/O failure never ends add_dir_index: the pair is
\* skipped and classification goes on.
C5_IOFailureRecovered ==
    (\E c \in CallSet : c.raised = "OSError") => pc # "failed"

\* C6: compare_content is staged. A call on files of different sizes says
\* "different" and computes no fingerprint; a call on files of equal size whose
\* quick fingerprints differ says "different" and computes no full
\* fingerprint; a full fingerprint is computed only for an operand of a call
\* whose sizes and quick fingerprints are equal.
C6_StagedShortCircuit ==
    \A c \in CallSet :
        c.raised # "ValueError" =>
            /\ Size(c.self) # Size(c.other) =>
                  ~ c.same_content /\ c.newQuick = {} /\ c.newFull = {}
            /\ ( /\ Size(c.self) = Size(c.other)
                 /\ quick_hash[c.self] # quick_hash[c.other] ) =>
                  ~ c.same_content /\ c.newFull = {}
            /\ \A f \in c.newFull :
                  /\ f \in {c.self, c.other}
                  /\ Size(c.self) = Size(c.other)
                  /\ quick_hash[c.self] # NoHash
                  /\ quick_hash[c.self] = quick_hash[c.other]

\* C6 witness: one add_dir_index iteration made a call that computed a full
\* fingerprint and a call that stopped at differing quick fingerprints.
C6_Witness ==
    /\ \E c \in CallSet : c.newFull # {}
    /\ \E c \in CallSet :
          /\ Size(c.self) = Size(c.other)
          /\ c.newQuick # {}
          /\ quick_hash[c.self] # NoHash /\ quick_hash[c.other] # NoHash
          /\ quick_hash[c.self] # quick_hash[c.other]

\* C7: each fingerprint of each file is computed at most once, and a filled
\* fingerprint field is never computed again nor changed.
C7_FingerprintsComputedOnce ==
    /\ [](\A f \in Files : quickRuns[f] <= 1 /\ fullRuns[f] <= 1)
    /\ [][ \A f \in Files :
              /\ quick_hash[f] # NoHash =>
                    quick_hash'[f] = quick_hash[f] /\ quickRuns'[f] = quickRuns[f]
              /\ full_hash[f] # NoHash =>
                    full_hash'[f] = full_hash[f] /\ fullRuns'[f] = fullRuns[f] ]_vars

\* C7 witness: a pair whose fingerprints were all filled was compared again and
\* found identical without computing any fingerprint.
C7_Witness ==
    \E c \in CallSet :
        c.raised = "none" /\ c.same_content /\ c.newQuick = {} /\ c.newFull = {}

\* C8: resolve_matches leaves in every MATCH group exactly its first member,
\* marks every other member as removed, and calls no cli operation.
C8_MatchKeepsFirst ==
    [][ (pc = "resolve_all" /\ CompType[typeIdx].type = "MATCH" /\ typeIdx' # typeIdx) =>
          /\ prompts' = << >>
          /\ Len(comparisons'["MATCH"]) = Len(comparisons["MATCH"])
          /\ \A g \in 1 .. Len(comparisons["MATCH"]) :
                /\ comparisons'["MATCH"][g].files = << comparisons["MATCH"][g].files[1] >>
                /\ removedAt'[comparisons["MATCH"][g].files[1]] = 0
                /\ \A f \in Members(comparisons["MATCH"][g])
                              \ { comparisons["MATCH"][g].files[1] } :
                      removedAt'[f] = typeIdx ]_vars

\* C8 witness: resolve_matches has run on a group of three identical files
\* and marked two of them.
C8_Witness ==
    /\ pc = "resolve_all"
    /\ typeIdx = 2
    /\ groupIdx = 1
    /\ Len(comparisons["MATCH"]) = 1
    /\ comparisons["MATCH"][1].files = << 1 >>
    /\ removedAt[2] = 1
    /\ removedAt[3] = 1

\* The outcome is filed: a group of its category's bucket holds both files.
Filed(o, t) ==
    \E g \in 1 .. Len(comparisons[t]) : {o.fileA, o.fileB} \subseteq Members(comparisons[t][g])

\* C9 as stated: every outcome returned to add_dir_index is in the pair cache
\* and filed in the bucket of its own category, UNIQUE included.
C9_EveryOutcomeCachedAndFiled ==
    \A o \in ReturnedSet :
        /\ comparison_cache[<< o.fileA, o.fileB >>] = o.comp_type
        /\ Filed(o, o.comp_type)

\* C9 amended: every outcome _compare_file_against_group returns to
\* add_dir_index is in the pair cache; it is filed in the bucket of its own
\* category exactly when that category is not UNIQUE, and a UNIQUE outcome is
\* filed in no bucket.
C9_OutcomeCachedAndFiledUnlessUnique ==
    \A o \in ReturnedSet :
        /\ comparison_cache[<< o.fileA, o.fileB >>] = o.comp_type
        /\ o.comp_type # "UNIQUE" => Filed(o, o.comp_type)
        /\ o.comp_type = "UNIQUE" => \A t \in TypeNames : ~ Filed(o, t)

\* C9 witness: one add_dir_index iteration returned a UNIQUE outcome and an
\* outcome of another category.
C9_Witness ==
    /\ \E o \in ReturnedSet : o.comp_type = "UNIQUE"
    /\ \E o \in ReturnedSet : o.comp_type # "UNIQUE"

\* The file shares neither its name nor its size with any other file.
SharesNothing(f) ==
    \A g \in Files \ {f} : name[g] # name[f] /\ Size(g) # Size(f)

\* The buckets that hold the file in one of their groups.
BucketsOf(f) ==
    { t \in TypeNames : \E g \in 1 .. Len(comparisons[t]) : f \in Members(comparisons[t][g]) }

\* C10: once add_dir_index has ended, a file that shares neither name nor
\* size with any other file is in the UNIQUE bucket and in no other bucket.
C10_LoneFileIsUnique ==
    pc \in {"resolve_all", "done", "failed"} =>
        \A f \in Files : SharesNothing(f) => BucketsOf(f) = {"UNIQUE"}

\* The categories whose content trait is false among those resolve_dups handles.
ContentUnproven == {"PATH_NAME_DUP", "NAME_DUP", "PATH_DUP"}

\* The operations of the cli calls of the last step, in order.
PromptOps == [ k \in 1 .. Len(prompts) |-> prompts[k].op ]

\* C11: for a group of a category whose content trait is false, resolve_dups
\* calls display_files, then prompt_build_diff, then prompt_keep_options, all
\* on that group; for a group of a category whose content trait is true it
\* calls display_files and prompt_keep_options only.
C11_DiffIffContentUnproven ==
    prompts # << >> =>
        /\ \A p \in PromptSet :
              /\ p.type = prompts[1].type
              /\ p.group = prompts[1].group
              /\ p.files = prompts[1].files
        /\ prompts[1].type \in ContentUnproven =>
              PromptOps = << "display_files", "prompt_build_diff", "prompt_keep_options" >>
        /\ prompts[1].type \notin ContentUnproven =>
              PromptOps = << "display_files", "prompt_keep_options" >>

\* C11 witness: a NAME_DUP group was resolved with a diff prompt between the
\* display and the keep-selection prompt.
C11_Witness ==
    /\ Len(prompts) = 3
    /\ prompts[2].op = "prompt_build_diff"
    /\ prompts[2].type = "NAME_DUP"

\* C12: PATH_DUP is never surfaced: its bucket holds no group, the pair cache
\* holds no PATH_DUP outcome, and no cli call is made for a PATH_DUP group.
C12_PathDupNeverSurfaced ==
    /\ comparisons["PATH_DUP"] = << >>
    /\ \A k \in DOMAIN comparison_cache : comparison_cache[k] # "PATH_DUP"
    /\ \A p \in PromptSet : p.type # "PATH_DUP"

\* C12 witness: resolve_all is past the PATH_DUP category of a tree in which
\* two files of equal size share only their folder.
C12_Witness ==
    /\ pc = "resolve_all"
    /\ CompType[typeIdx].type = "UNIQUE"
    /\ \E a, b \in Files :
          /\ dir[a] = dir[b]
          /\ name[a] # name[b]
          /\ Size(a) = Size(b)
          /\ content[a] # content[b]

\* C13: a compare_content verdict of "same content" is given only for two
\* files of equal size whose quick fingerprints are filled and equal and whose
\* full fingerprints are filled and equal.
C13_SameContentNeedsAllStages ==
    \A c \in CallSet :
        c.same_content =>
            /\ Size(c.self) = Size(c.other)
            /\ quick_hash[c.self] # NoHash
            /\ quick_hash[c.self] = quick_hash[c.other]
            /\ full_hash[c.self] # NoHash
            /\ full_hash[c.self] = full_hash[c.other]

\* C13 witness: a call found two files identical and computed both full
\* fingerprints to do so, while another call of the step found two files with
\* equal quick fingerprints different.
C13_Witness ==
    /\ \E c \in CallSet : c.same_content /\ Cardinality(c.newFull) = 2
    /\ \E c \in CallSet :
          /\ ~ c.same_content
          /\ c.raised = "none"
          /\ quick_hash[c.self] # NoHash
          /\ quick_hash[c.self] = quick_hash[c.other]

\* C14: compare_to called with one descriptor as both operands raises the
\* ValueError, returns no outcome and computes nothing (no fingerprint is
\* filled, nothing is cached or filed); add_dir_index never makes such a call
\* and never meets that error.
C14_SelfComparisonRejected ==
    /\ [](\A c \in CallSet :
            /\ c.self = c.other =>
                  /\ pc = "rejected"
                  /\ c.raised = "ValueError"
                  /\ c.outcome = None
                  /\ c.newQuick = {} /\ c.newFull = {}
            /\ pc # "rejected" => c.self # c.other /\ c.raised # "ValueError")
    /\ [][ pc' = "rejected" =>
              UNCHANGED << quick_hash, full_hash, quickRuns, fullRuns,
                           comparison_cache, comparisons >> ]_vars

\* C14 witness: after add_dir_index walked file 1 through groups that hold it
\* and other files, file 2, which has no fingerprint yet, was compared to itself.
C14_Witness ==
    /\ pc = "rejected"
    /\ fileIdx = 2
    /\ quick_hash[1] # NoHash
    /\ \E c \in CallSet : c.self = 2 /\ c.other = 2 /\ quick_hash[2] = NoHash

\* C15: the outcomes filed for one unordered pair of files all carry the same
\* category: no pair is filed in the buckets of two categories.
C15_PairInOneBucket ==
    \A x, y \in filed : x[1] = y[1] => x[2] = y[2]

\* C15 witness: a pair was classified in both orders and both outcomes were
\* filed.
C15_Witness ==
    \E a, b \in Files :
        /\ a # b
        /\ comparison_cache[<< a, b >>] \notin {None, "UNIQUE"}
        /\ comparison_cache[<< b, a >>] \notin {None, "UNIQUE"}
        /\ << {a, b}, comparison_cache[<< a, b >>] >> \in filed
        /\ << {a, b}, comparison_cache[<< b, a >>] >> \in filed

\* The categories the prompt collaborator may be asked about.
Surfaced == {"PATH_NAME_DUP", "CONTENT_NAME_DUP", "CONTENT_PATH_DUP", "NAME_DUP", "CONTENT_DUP"}

\* C16 as stated: resolve_all takes the categories once each in declaration
\* order, MATCH first and automatically, never UNIQUE, and applies the generic
\* prompt-driven procedure to exactly the five surfaced categories, not to
\* PATH_DUP.
C16_DupsOnlySurfaced ==
    /\ Len(resolved) <= Len(CompType)
    /\ pc = "done" => Len(resolved) = Len(CompType)
    /\ \A i \in 1 .. Len(resolved) :
        /\ resolved[i][1] = CompType[i].type
        /\ resolved[i][2] = "resolve_matches" <=> resolved[i][1] = "MATCH"
        /\ resolved[i][2] # "continue" \/ resolved[i][1] = "UNIQUE"
        /\ resolved[i][2] = "resolve_dups" <=> resolved[i][1] \in Surfaced
    /\ \A c \in PromptSet : resolved[1] = << "MATCH", "resolve_matches" >>

\* C16, amended: resolve_all takes the categories once each in declaration
\* order; MATCH comes first and is resolved automatically before any group is
\* presented; UNIQUE is skipped; the generic procedure is invoked for every
\* other category, PATH_DUP included, and presents groups of the five surfaced
\* categories only.
C16_ResolveAllOrder ==
    /\ Len(resolved) <= Len(CompType)
    /\ pc = "done" => Len(resolved) = Len(CompType)
    /\ \A i \in 1 .. Len(resolved) :
        /\ resolved[i][1] = CompType[i].type
        /\ resolved[i][2] = "resolve_matches" <=> resolved[i][1] = "MATCH"
        /\ resolved[i][2] = "continue" <=> resolved[i][1] = "UNIQUE"
        /\ resolved[i][2] = "resolve_dups" <=> resolved[i][1] \in Surfaced \cup {"PATH_DUP"}
    /\ \A c \in PromptSet :
        /\ c.type \in Surfaced
        /\ resolved[1] = << "MATCH", "resolve_matches" >>
        /\ resolved[Len(resolved)] = << c.type, "resolve_dups" >>

\* C16 witness: resolve_all has finished, the pass of PATH_DUP ran the generic
\* procedure, and both the automatic and a prompted pass discarded a file.
C16_Witness ==
    /\ pc = "done"
    /\ resolved[7] = << "PATH_DUP", "resolve_dups" >>
    /\ \E f, g \in Files : removedAt[f] = 1 /\ removedAt[g] > 1

\* add_dir_index called add_file on the UNIQUE bucket for f.
FiledUnique(f) == << {f}, "UNIQUE" >> \in filed

\* f is a member of an outcome that add_dir_index filed in a bucket.
InFiledOutcome(f) == \E x \in filed : f \in x[1] /\ Cardinality(x[1]) = 2

\* C17: once add_dir_index has returned, every file of the file list is either
\* filed under UNIQUE or a member of an outcome filed in a non-UNIQUE bucket,
\* never both and never neither; no outcome is filed under UNIQUE or PATH_DUP.
C17_UniqueOrInOutcome ==
    pc \in {"resolve_all", "done"} =>
        /\ \A f \in Files : FiledUnique(f) <=> ~ InFiledOutcome(f)
        /\ \A x \in filed : Cardinality(x[1]) = 2 => x[2] \notin {"UNIQUE", "PATH_DUP"}

\* C17 witness: add_dir_index has returned; one file whose outcomes were all of
\* category UNIQUE or suppressed is filed under UNIQUE, and another file is a
\* member of a filed outcome.
C17_Witness ==
    /\ pc = "resolve_all"
    /\ \E f, g, h \in Files :
        /\ f # g
        /\ comparison_cache[<< f, g >>] = "UNIQUE"
        /\ FiledUnique(f)
        /\ InFiledOutcome(h)

\* The calls ab = compare_to(A, B) and ba = compare_to(B, A) yield the same, and
\* so did every earlier call on the pair.
SameYield(ab, ba, past) ==
    /\ Yielded(ab) = Yielded(ba)
    /\ past \subseteq { Yielded(ab) }

\* C18: for distinct files A and B, every compare_to call made on the pair so
\* far, in either order, yielded the same category (or nothing), and a call made
\* now, in either order and with the fingerprints memoized so far, yields it too.
\* resolve_all makes no call and fills no fingerprint, so the call made now is
\* taken up to the first category's pass.
C18_SymmetricAndRepeatable ==
    \A a, b \in Files :
        a < b =>
            IF typeIdx = 1
            THEN SameYield(compare_to(a, b, FieldsNow), compare_to(b, a, FieldsNow),
                           yielded[<< a, b >>] \cup yielded[<< b, a >>])
            ELSE Cardinality(yielded[<< a, b >>] \cup yielded[<< b, a >>]) <= 1

\* C18 witness: a pair was compared in both orders, its content went through
\* the full fingerprints, and one of the files was compared with a third one.
C18_Witness ==
    \E a, b, c \in Files :
        /\ a # b /\ c \notin {a, b}
        /\ yielded[<< a, b >>] # {} /\ yielded[<< b, a >>] # {}
        /\ full_hash[a] # NoHash /\ full_hash[b] # NoHash
        /\ yielded[<< a, c >>] # {}

====
